---- MODULE Spec2Model ----
(***************************************************************************)
(* Storage yard of src/store.py (class Store) driven by arbitrary          *)
(* sequences of calls of its public methods.                               *)
(*                                                                         *)
(* Python semantics kept by the model:                                     *)
(*   - a call either returns or raises; a result is a record whose field   *)
(*     exc names the exception raised ("" for a normal return);            *)
(*   - assert statements are enabled (the interpreter runs without -O);    *)
(*   - list indexing with a negative index counts from the end of the      *)
(*     list, an index outside -len..len-1 raises IndexError;               *)
(*   - a method that raises half way keeps the mutations done so far.      *)
(***************************************************************************)
EXTENDS Integers, Sequences, FiniteSets, TLC

(***************************************************************************)
(* Bounds of the model                                                     *)
(***************************************************************************)
\* number of columns of the store under test
Width == 3
\* number of containers offered to the store
NumContainers == 2
\* largest container size offered
MaxSize == 2
\* no call is issued that would raise a column above this height
MaxHeight == 2
\* no add_cash call is issued that would raise the cash above this amount
MaxCash == 1

\* store: the Store object (_width, _storage, _cash, _containers, _map); a list
\*        holds a Container by reference, named here by its identifier
\*        (identifiers are unique)
\* lastOp: the last call made on the store and how it ended
\* sched: a run of the expert strategy of src/expert.py: the Strategy object
\*        (_store, _time, the lines its Logger wrote), the containers read so
\*        far and the position of the run inside exec
\* verif: a run of check_and_show of src/store.py over a log: its locals
\*        (store, last) and how far it got
VARIABLES store, lastOp, sched, verif

vars == <<store, lastOp, sched, verif>>

(***************************************************************************)
(* Values                                                                  *)
(***************************************************************************)
\* Python's None (Optional[Location]); a Location is the tuple <<height, column>>
None == <<>>

NoExc == ""
AssertionError == "AssertionError"
IndexError == "IndexError"
TypeError == "TypeError"
ValueError == "ValueError"

\* a call that returned v / a call that raised e
Return(v) == [exc |-> NoExc, val |-> v]
Raise(e) == [exc |-> e, val |-> None]

\* a mutating call that returned / raised, leaving the store as st
Done(st) == [exc |-> NoExc, st |-> st]
Failed(e, st) == [exc |-> e, st |-> st]

TimeRange(start, end) == [start |-> start, end |-> end]

Container(identifier, size, value, arrival, delivery) ==
    [identifier |-> identifier, size |-> size, value |-> value,
     arrival |-> arrival, delivery |-> delivery]

\* The containers offered to the store: unique identifiers, sizes 1..MaxSize
\* in turn, value equal to the identifier.  The Store reads only identifier
\* and size.
Ids == 1..NumContainers

SizeOf(i) == ((i - 1) % MaxSize) + 1

Catalog ==
    { Container(i, SizeOf(i), i, TimeRange(0, 1), TimeRange(0, 1)) : i \in Ids }

(***************************************************************************)
(* class Store                                                             *)
(***************************************************************************)
\* Store.__init__
Store(width) ==
    [ width      |-> width,
      storage    |-> [i \in 0..(width - 1) |-> <<>>],
      cash       |-> 0,
      containers |-> <<>>,
      map        |-> <<>> ]

\* self._storage[i] of a Python list: a negative index counts from the end
ListIndexOk(st, i) == (i >= -st.width) /\ (i < st.width)
ListIndex(st, i) == IF i < 0 THEN i + st.width ELSE i
Column(st, i) == st.storage[ListIndex(st, i)]

\* Store.valid_position
valid_position(st, p) == p < st.width

\* Store.height_column
height_column(st, p) ==
    IF ~valid_position(st, p) THEN Raise(AssertionError)
    ELSE IF ~ListIndexOk(st, p) THEN Raise(IndexError)
    ELSE Return(Len(Column(st, p)))

\* Store.location: self._map.get(c.identifier)
location(st, c) ==
    IF c.identifier \in DOMAIN st.map THEN st.map[c.identifier] ELSE None

\* can_add whose loop no longer compares the heights of the columns
can_add_from_no_compare(st, l, i, stop) ==
    IF stop - 1 >= st.width THEN Raise(AssertionError) ELSE Return(TRUE)

\* Store.can_add: the loop over range(p, p + c.size), from column i on
RECURSIVE can_add_from(_, _, _, _)
can_add_from(st, l, i, stop) ==
    IF i >= stop THEN Return(TRUE)
    ELSE LET h == height_column(st, i)
         IN  IF h.exc # NoExc THEN Raise(h.exc)
             ELSE IF h.val # l THEN Return(FALSE)
             ELSE can_add_from(st, l, i + 1, stop)

can_add(st, c, p) ==
    IF ~valid_position(st, p) THEN Raise(AssertionError)
    ELSE LET l == height_column(st, p)
         IN  IF l.exc # NoExc THEN Raise(l.exc)
             ELSE can_add_from(st, l.val, p, p + c.size)

\* Store.can_remove
can_remove(st, c) ==
    LET loc == location(st, c)
    IN  IF loc = None THEN Raise(TypeError)
        ELSE LET h == height_column(st, loc[2])
             IN  IF h.exc # NoExc THEN Raise(h.exc)
                 ELSE Return(loc[1] + 1 = h.val)

\* Store.add_cash
add_cash(st, amount) == Done([st EXCEPT !.cash = @ + amount])

\* Store.add: the loop appending c to the columns range(p, p + c.size)
RECURSIVE add_from(_, _, _, _)
add_from(storage, st, c, i) ==
    IF i >= c.size THEN storage
    ELSE LET col == ListIndex(st, location(st, c)[2] + i)
         IN  add_from([storage EXCEPT ![col] = Append(@, c.identifier)], st, c, i + 1)

MapPut(m, k, v) == [x \in (DOMAIN m) \cup {k} |-> IF x = k THEN v ELSE m[x]]

\* a pop that leaves the entry in the index
MapPopKeeps(m, k) == m

MapPop(m, k) == [x \in (DOMAIN m) \ {k} |-> m[x]]

\* add recording the height of the column after the push instead of before
add_height_off_by_one(st, c, p) ==
    LET ok == can_add(st, c, p)
    IN  IF ok.exc # NoExc THEN Failed(ok.exc, st)
        ELSE IF ~ok.val THEN Failed(AssertionError, st)
        ELSE LET st1 == [st EXCEPT
                            !.map = MapPut(@, c.identifier,
                                           <<height_column(st, p).val + 1, p>>),
                            !.containers = Append(@, c.identifier)]
             IN  Done([st1 EXCEPT !.storage = add_from(@, st1, c, 0)])

add(st, c, p) ==
    LET ok == can_add(st, c, p)
    IN  IF ok.exc # NoExc THEN Failed(ok.exc, st)
        ELSE IF ~ok.val THEN Failed(AssertionError, st)
        ELSE LET st1 == [st EXCEPT
                            !.map = MapPut(@, c.identifier,
                                           <<height_column(st, p).val, p>>),
                            !.containers = Append(@, c.identifier)]
             IN  Done([st1 EXCEPT !.storage = add_from(@, st1, c, 0)])

\* list.remove(x): drops the first element equal to x
RECURSIVE ListRemove(_, _)
ListRemove(s, x) ==
    IF s = <<>> THEN <<>>
    ELSE IF Head(s) = x THEN Tail(s)
    ELSE <<Head(s)>> \o ListRemove(Tail(s), x)

InList(s, x) == \E k \in 1..Len(s) : s[k] = x

\* del s[k] with k >= 0 counted from 0
ListDel(s, k) == SubSeq(s, 1, k) \o SubSeq(s, k + 2, Len(s))

\* remove popping the container from its leftmost column only
remove_from_left_only(st, c, loc, i) ==
    IF loc[1] >= Len(Column(st, loc[2])) THEN Failed(IndexError, st)
    ELSE Done([st EXCEPT !.storage[ListIndex(st, loc[2])] = ListDel(@, loc[1])])

\* Store.remove: the loop deleting storage[i][loc[0]] for i in
\* range(loc[1], loc[1] + c.size); an index that does not exist raises
\* IndexError and leaves the columns already handled shortened
RECURSIVE remove_from(_, _, _, _)
remove_from(st, c, loc, i) ==
    IF i >= loc[2] + c.size THEN Done(st)
    ELSE IF ~ListIndexOk(st, i) THEN Failed(IndexError, st)
    ELSE IF loc[1] >= Len(Column(st, i)) THEN Failed(IndexError, st)
    ELSE remove_from(
             [st EXCEPT !.storage[ListIndex(st, i)] = ListDel(@, loc[1])],
             c, loc, i + 1)

remove(st, c) ==
    IF c.identifier \notin DOMAIN st.map THEN Failed(AssertionError, st)
    ELSE LET ok == can_remove(st, c)
         IN  IF ok.exc # NoExc THEN Failed(ok.exc, st)
             ELSE IF ~ok.val THEN Failed(AssertionError, st)
             ELSE LET loc == location(st, c)
                      st1 == [st EXCEPT !.map = MapPop(@, c.identifier)]
                  IN  IF ~InList(st1.containers, c.identifier)
                      THEN Failed(ValueError, st1)
                      ELSE remove_from(
                               [st1 EXCEPT !.containers = ListRemove(@, c.identifier)],
                               c, loc, loc[2])

\* Store.can_move: can_remove(c) and can_add(c, p), the second operand
\* evaluated only when the first is true
can_move(st, c, p) ==
    LET r == can_remove(st, c)
    IN  IF r.exc # NoExc THEN Raise(r.exc)
        ELSE IF ~r.val THEN Return(FALSE)
        ELSE can_add(st, c, p)

\* Store.move
move(st, c, p) ==
    LET ok == can_move(st, c, p)
    IN  IF ok.exc # NoExc THEN Failed(ok.exc, st)
        ELSE IF ~ok.val THEN Done(st)
        ELSE LET r == remove(st, c)
             IN  IF r.exc # NoExc THEN r
                 ELSE LET a == add(r.st, c, p)
                      IN  IF a.exc # NoExc THEN a
                          ELSE Done([a.st EXCEPT
                                        !.map = MapPut(@, c.identifier,
                                                       location(a.st, c))])

(***************************************************************************)
(* Calls on the store                                                      *)
(***************************************************************************)
\* what a predicate call gave back: "True", "False" or the exception raised
Answer(r) == IF r.exc # NoExc THEN r.exc ELSE IF r.val THEN "True" ELSE "False"

\* how a mutating call ended: "ok" or the exception raised
Outcome(r) == IF r.exc # NoExc THEN r.exc ELSE "ok"

Op(op, args, outcome, after) ==
    [op |-> op, args |-> args, outcome |-> outcome, after |-> after]

\* positions passed to add and move: the columns of the store
Positions == 0..(store.width - 1)

HeightWithin(st) == \A i \in 0..(st.width - 1) : Len(st.storage[i]) <= MaxHeight

Init ==
    /\ store = Store(Width)
    /\ lastOp = Op("Store", <<Width>>, "ok", "")
    /\ sched = None
    /\ verif = None

\* a caller adds a container that is not in the store
Add ==
    \E c \in Catalog, p \in Positions :
        /\ c.identifier \notin DOMAIN store.map
        /\ LET r == add(store, c, p)
           IN  /\ HeightWithin(r.st)
               /\ store' = r.st
               /\ lastOp' = Op("add", <<c.identifier, p>>, Outcome(r), "")
               /\ UNCHANGED <<sched, verif>>

\* remove that directly follows the successful add of the same container is
\* marked "add" in the field after
Remove ==
    \E c \in Catalog :
        /\ c.identifier \in DOMAIN store.map
        /\ LET r == remove(store, c)
           IN
            /\ store' = r.st
            /\ lastOp' = Op("remove", <<c.identifier>>, Outcome(r),
                            IF /\ lastOp.op = "add"
                               /\ lastOp.outcome = "ok"
                               /\ lastOp.args[1] = c.identifier
                            THEN "add" ELSE "")
            /\ UNCHANGED <<sched, verif>>

Move ==
    \E c \in Catalog, p \in Positions :
        /\ c.identifier \in DOMAIN store.map
        /\ LET r == move(store, c, p)
           IN
            /\ HeightWithin(r.st)
            /\ store' = r.st
            /\ lastOp' = Op("move", <<c.identifier, p>>, Outcome(r), "")
            /\ UNCHANGED <<sched, verif>>

AddCash ==
    \E c \in Catalog :
        /\ store.cash + c.value <= MaxCash
        /\ store' = add_cash(store, c.value).st
        /\ lastOp' = Op("add_cash", <<c.value>>, "ok", "")
        /\ UNCHANGED <<sched, verif>>

Next ==
    \/ Add
    \/ Remove
    \/ Move
    \/ AddCash

Spec == Init /\ [][Next]_vars

(***************************************************************************)
(* Vocabulary of the properties                                            *)
(***************************************************************************)
\* a container is present when the index (and the container list) holds it
IsPresent(st, c) == c.identifier \in DOMAIN st.map

\* the columns p .. p+size-1 of a container of that size placed at p
Cols(c, p) == p..(p + c.size - 1)

ColumnHas(col, id) == \E k \in 1..Len(col) : col[k] = id

\* stack index (from 0) of the container in a column that holds it
IndexIn(col, id) == (CHOOSE k \in 1..Len(col) : col[k] = id) - 1

\* no other container lies at a greater height in any column c spans
NothingAbove(st, c) ==
    LET loc == location(st, c)
    IN  \A i \in Cols(c, loc[2]) :
            \A k \in 1..Len(st.storage[i]) :
                (k - 1 > loc[1]) => (st.storage[i][k] = c.identifier)

\* all columns p .. p+size-1 exist and are as high as column p
FlatAt(st, c, p) ==
    /\ 0 <= p
    /\ p + c.size <= st.width
    /\ \A i \in Cols(c, p) : Len(st.storage[i]) = Len(st.storage[p])

\* some column of p .. p+size-1 inside the store is not as high as column p
UnevenAt(st, c, p) ==
    \E i \in Cols(c, p) :
        i < st.width /\ Len(st.storage[i]) # Len(st.storage[p])

ById(id) == CHOOSE c \in Catalog : c.identifier = id

\* the index entries of the containers other than id are the same
SameOtherEntries(before, after, id) ==
    /\ (DOMAIN after.map) \ {id} = (DOMAIN before.map) \ {id}
    /\ \A o \in (DOMAIN before.map) \ {id} : after.map[o] = before.map[o]

\* what a successful add(c, p) changes and what it leaves alone
AddFrame(before, after, c, p) ==
    /\ \A i \in 0..(before.width - 1) :
           IF i \in Cols(c, p)
           THEN after.storage[i] = Append(before.storage[i], c.identifier)
           ELSE after.storage[i] = before.storage[i]
    /\ Cols(c, p) \subseteq 0..(before.width - 1)
    /\ IsPresent(after, c)
    /\ after.map[c.identifier] = <<Len(before.storage[p]), p>>
    /\ SameOtherEntries(before, after, c.identifier)
    /\ after.cash = before.cash
    /\ after.width = before.width

\* what a successful remove(c) changes and what it leaves alone
RemoveFrame(before, after, c) ==
    LET loc == location(before, c)
    IN  /\ \A i \in 0..(before.width - 1) :
               IF i \in Cols(c, loc[2])
               THEN Len(after.storage[i]) = Len(before.storage[i]) - 1
               ELSE after.storage[i] = before.storage[i]
        /\ ~IsPresent(after, c)
        /\ SameOtherEntries(before, after, c.identifier)
        /\ after.cash = before.cash
        /\ after.width = before.width

\* c is placed at p and the other containers are where they were
MovedTo(before, after, c, p) ==
    /\ IsPresent(after, c)
    /\ location(after, c)[2] = p
    /\ \A i \in Cols(c, p) :
           /\ i < after.width
           /\ Len(after.storage[i]) > location(after, c)[1]
           /\ after.storage[i][location(after, c)[1] + 1] = c.identifier
    /\ SameOtherEntries(before, after, c.identifier)
    /\ InList(after.containers, c.identifier)
    /\ after.cash = before.cash

\* any integer position around the store, for the predicates
QueryPositions == (-(Width + 1))..(Width + 1)

(***************************************************************************)
(* C1: can_remove(C) is true if and only if no other container occupies a  *)
(* strictly greater height in any of the columns C spans.                  *)
(***************************************************************************)
C1_TopOnlyRemoval ==
    \A c \in Catalog :
        IsPresent(store, c) =>
            (can_remove(store, c).val <=> NothingAbove(store, c))

(***************************************************************************)
(* C2: for every present container, all columns of its footprint have the  *)
(* same height above it and the same height below it.                      *)
(***************************************************************************)
C2_EvenAboveAndBelow ==
    \A c \in Catalog :
        IsPresent(store, c) =>
            LET cols == Cols(c, location(store, c)[2])
                id == c.identifier
            IN  \A i, j \in cols :
                    /\ ColumnHas(store.storage[i], id)
                    /\ ColumnHas(store.storage[j], id)
                    /\ IndexIn(store.storage[i], id) = IndexIn(store.storage[j], id)
                    /\ Len(store.storage[i]) - IndexIn(store.storage[i], id)
                         = Len(store.storage[j]) - IndexIn(store.storage[j], id)

(***************************************************************************)
(* C3: every present container of size s with index entry (h, p) is stored *)
(* at stack index h of each of the columns p..p+s-1 and in no other        *)
(* column; the entry never goes stale when another container is removed.   *)
(***************************************************************************)
C3_IndexMatchesColumns ==
    \A c \in Catalog :
        IsPresent(store, c) =>
            LET loc == location(store, c)
            IN  \A i \in 0..(store.width - 1) :
                    IF i \in Cols(c, loc[2])
                    THEN /\ Len(store.storage[i]) > loc[1]
                         /\ store.storage[i][loc[1] + 1] = c.identifier
                    ELSE ~ColumnHas(store.storage[i], c.identifier)

(***************************************************************************)
(* C4 as stated: for all containers C present and all columns of its       *)
(* footprint, the height of the column equals C.location.height + 1.       *)
(***************************************************************************)
C4_FlatSurfaceAll ==
    \A c \in Catalog :
        IsPresent(store, c) =>
            LET loc == location(store, c)
            IN  \A i \in Cols(c, loc[2]) : Len(store.storage[i]) = loc[1] + 1

(***************************************************************************)
(* C4 as amended: right after a successful add(C, p), every column of      *)
(* [p, p + C.size) has height C.location.height + 1; the equality is that  *)
(* of the container just placed, not of the containers below it.           *)
(***************************************************************************)
C4_FlatWhenPlaced ==
    (lastOp.op = "add" /\ lastOp.outcome = "ok") =>
        LET c == ById(lastOp.args[1])
            p == lastOp.args[2]
        IN  /\ IsPresent(store, c)
            /\ location(store, c)[2] = p
            /\ \A i \in Cols(c, p) :
                   /\ i < store.width
                   /\ Len(store.storage[i]) = location(store, c)[1] + 1

\* a container has just been added on top of another one
C4_Witness ==
    /\ lastOp.op = "add"
    /\ lastOp.outcome = "ok"
    /\ location(store, ById(lastOp.args[1]))[1] >= 1

(***************************************************************************)
(* C5: can_add returns true exactly when 0 <= position < width,            *)
(* position + size <= width and the columns of the footprint are as high   *)
(* as columns[position]; in every other case it returns false (a boolean,  *)
(* not an error).                                                          *)
(***************************************************************************)
C5_CanAddTotal ==
    \A c \in Catalog, p \in QueryPositions :
        Answer(can_add(store, c, p))
            = (IF p < store.width /\ FlatAt(store, c, p) THEN "True" ELSE "False")

(***************************************************************************)
(* C6: placing a container of size >= 2 on a footprint whose columns do    *)
(* not all have the same height is rejected: can_add returns false, add    *)
(* fails, and the columns, the index, the container list and the cash are  *)
(* left as they were.                                                      *)
(***************************************************************************)
C6_UnevenRejected ==
    \A c \in Catalog, p \in Positions :
        (c.size >= 2 /\ UnevenAt(store, c, p)) =>
            /\ Answer(can_add(store, c, p)) = "False"
            /\ add(store, c, p).exc = AssertionError
            /\ add(store, c, p).st = store

\* the last call was such an add, it raised, and the yard holds something
C6_Witness ==
    /\ lastOp.op = "add"
    /\ lastOp.outcome = AssertionError
    /\ ById(lastOp.args[1]).size >= 2
    /\ UnevenAt(store, ById(lastOp.args[1]), lastOp.args[2])
    /\ lastOp.args[2] + ById(lastOp.args[1]).size <= store.width
    /\ store.containers # <<>>
    /\ store.cash > 0

(***************************************************************************)
(* C7: a successful add(c, p) raises exactly the columns [p, p + c.size)   *)
(* by one, records Location (previous height of column p, p) for c and     *)
(* leaves every other column, every other index entry and the cash         *)
(* unchanged; a successful remove(c) lowers exactly the columns of c's     *)
(* footprint by one, deletes c's index entry and leaves every other        *)
(* column, every other index entry and the cash unchanged.                 *)
(***************************************************************************)
C7_AddRemoveFrame ==
    /\ \A c \in Catalog, p \in Positions :
           (~IsPresent(store, c) /\ add(store, c, p).exc = NoExc) =>
               AddFrame(store, add(store, c, p).st, c, p)
    /\ \A c \in Catalog :
           (IsPresent(store, c) /\ remove(store, c).exc = NoExc) =>
               RemoveFrame(store, remove(store, c).st, c)

\* a container wider than one column has just been removed while another
\* container stays in the yard and the cash is not zero
C7_Witness ==
    /\ lastOp.op = "remove"
    /\ lastOp.outcome = "ok"
    /\ ById(lastOp.args[1]).size >= 2
    /\ store.containers # <<>>
    /\ store.cash > 0

(***************************************************************************)
(* C8: for every container c not present and every position p with        *)
(* can_add(c, p), add(c, p) followed at once by remove(c) succeeds and     *)
(* gives back the same columns, index, container list and cash.            *)
(***************************************************************************)
C8_AddRemoveRoundTrip ==
    \A c \in Catalog, p \in Positions :
        (~IsPresent(store, c) /\ Answer(can_add(store, c, p)) = "True") =>
            LET a == add(store, c, p)
                r == remove(a.st, c)
            IN  /\ a.exc = NoExc
                /\ r.exc = NoExc
                /\ r.st = store

\* a remove has just undone the add made right before it, in a yard that
\* holds another container
C8_Witness ==
    /\ lastOp.op = "remove"
    /\ lastOp.after = "add"
    /\ lastOp.outcome = "ok"
    /\ store.containers # <<>>

(***************************************************************************)
(* C9: can_move(c, p) is true exactly when c is removable and the columns  *)
(* [p, p + c.size) are all of equal height in the yard obtained by first   *)
(* removing c.                                                             *)
(***************************************************************************)
C9_CanMoveAfterRemoval ==
    \A c \in Catalog, p \in Positions :
        IsPresent(store, c) =>
            ( (Answer(can_move(store, c, p)) = "True")
              <=> ( /\ can_remove(store, c).val
                    /\ FlatAt(remove(store, c).st, c, p) ) )

(***************************************************************************)
(* C10: move(c, p) on a present container either ends with c placed at p   *)
(* and every other container untouched, or with the yard exactly as it was *)
(* before the call; it never ends with c removed but not placed.           *)
(***************************************************************************)
C10_MoveAtomic ==
    [][ (lastOp'.op = "move") =>
            LET c == ById(lastOp'.args[1])
                p == lastOp'.args[2]
            IN  \/ store' = store
                \/ MovedTo(store, store', c, p) ]_vars

(***************************************************************************)
(* Log files (class Logger of src/store.py)                                *)
(*                                                                         *)
(* A line is the tuple of its blank-separated tokens.  print writes an     *)
(* integer in decimal, int() of check_and_show reads it back: a numeric    *)
(* token is the tuple of its characters.                                   *)
(***************************************************************************)
DigitChars == <<"0", "1", "2", "3", "4", "5", "6", "7", "8", "9">>

\* the decimal digits of n >= 0, most significant first
RECURSIVE Digits(_)
Digits(n) ==
    IF n < 10 THEN <<DigitChars[n + 1]>>
    ELSE Digits(n \div 10) \o <<DigitChars[(n % 10) + 1]>>

\* a print that writes the last digit of an integer only
str_units(n) == Digits(n % 10)

\* str(n) of an int, as print formats it
str(n) == IF n < 0 THEN <<"-">> \o Digits(-n) ELSE Digits(n)

DigitValue(ch) == (CHOOSE k \in 1..10 : DigitChars[k] = ch) - 1

RECURSIVE DigitsValue(_, _)
DigitsValue(tok, acc) ==
    IF tok = <<>> THEN acc
    ELSE DigitsValue(Tail(tok), 10 * acc + DigitValue(Head(tok)))

\* int(token) of a token written by str
int(tok) == IF Head(tok) = "-" THEN -DigitsValue(Tail(tok), 0)
            ELSE DigitsValue(tok, 0)

\* Logger.__init__ writes the first line, the other methods one line each
LoggerName == "my_strategy"

Logger(name, width) == << <<str(0), "START", name, str(width)>> >>

logger_add(log, t, c, p) == Append(log, <<str(t), "ADD", str(c.identifier), str(p)>>)

logger_remove(log, t, c) == Append(log, <<str(t), "REMOVE", str(c.identifier)>>)

\* a MOVE line stamped with the time after the move
logger_move_next_tick(log, t, c, p) ==
    Append(log, <<str(t + 1), "MOVE", str(c.identifier), str(p)>>)

logger_move(log, t, c, p) == Append(log, <<str(t), "MOVE", str(c.identifier), str(p)>>)

logger_cash(log, t, amount) == Append(log, <<str(t), "CASH", str(amount)>>)

(***************************************************************************)
(* class Strategy of src/expert.py                                         *)
(*                                                                         *)
(* A Strategy is the record of _store, _time and the lines written by      *)
(* _logger; seen is the list of containers read so far, the k-th of them   *)
(* having identifier k, through which the identifiers held by the store    *)
(* name their Container objects.  A mutating method gives back the record  *)
(* [exc, st] with st the Strategy it leaves.                               *)
(***************************************************************************)
\* Strategy.__init__
Strategy(width) ==
    [ store |-> Store(width),
      time  |-> 0,
      log   |-> Logger(LoggerName, width),
      seen  |-> <<>> ]

\* the Container object behind an identifier held by the store
Obj(s, id) == s.seen[id]

\* Store.removable_containers: the containers in list order that can_remove
\* accepts
IsRemovable(s, c) == LET r == can_remove(s.store, c) IN r.exc = NoExc /\ r.val

RECURSIVE removable_from(_, _)
removable_from(s, ids) ==
    IF ids = <<>> THEN <<>>
    ELSE (IF IsRemovable(s, Obj(s, Head(ids))) THEN <<Head(ids)>> ELSE <<>>)
         \o removable_from(s, Tail(ids))

removable_containers(s) == removable_from(s, s.store.containers)

\* Store.empty
empty(st, p) == Len(Column(st, p)) = 0

\* a container taken for expired from the start of its delivery window on
expired_container_early(s, c) == s.time >= c.delivery.start

\* Strategy.expired_container
expired_container(s, c) == s.time >= c.delivery.end

\* a container taken for deliverable before its delivery window
valid_container_no_start(s, c) == ~expired_container(s, c)

\* Strategy.valid_container
valid_container(s, c) == s.time >= c.delivery.start /\ ~expired_container(s, c)

\* Strategy.valid_container_h
valid_container_h(c, t) == c.delivery.start <= t /\ t < c.delivery.end

\* second piles put one pile further to the right, the last of them past
\* the columns the strategy counts on
stack_position_beyond(n, size) ==
    IF n = 1 THEN size * (size - 1) ELSE size * (size + 1)

\* Strategy.stack_position: the two piles of a size
stack_position(n, size) == IF n = 1 THEN size * (size - 1) ELSE size * size

\* a clock that a mutation leaves alone
update_time_stuck(s) == s

\* Strategy.update_time
update_time(s) == [s EXCEPT !.time = @ + 1]

\* Strategy.empty_store
empty_store(s) == Len(s.store.containers) = 0

\* Strategy.height_column: asserts the position, then len of the column
strategy_height_column(s, p) ==
    IF ~valid_position(s.store, p) THEN Raise(AssertionError)
    ELSE IF ~ListIndexOk(s.store, p) THEN Raise(IndexError)
    ELSE Return(Len(Column(s.store, p)))

\* the asserted precondition of lose_container and sell_container
AssertCanRemove(s, c) ==
    LET ok == can_remove(s.store, c)
    IN  IF ok.exc # NoExc THEN ok.exc
        ELSE IF ~ok.val THEN AssertionError ELSE NoExc

\* Strategy.lose_container
lose_container(s, c) ==
    LET pre == AssertCanRemove(s, c)
    IN  IF pre # NoExc THEN Failed(pre, s)
        ELSE LET r == remove(s.store, c)
                 s1 == [s EXCEPT !.store = r.st]
             IN  IF r.exc # NoExc THEN Failed(r.exc, s1)
                 ELSE Done(update_time(
                          [s1 EXCEPT !.log = logger_remove(@, s.time, c)]))

\* a sale that credits nothing
sell_container_unpaid(s, c) ==
    LET pre == AssertCanRemove(s, c)
    IN  IF pre # NoExc THEN Failed(pre, s)
        ELSE LET r == remove(s.store, c)
                 s1 == [s EXCEPT !.store = r.st]
             IN  IF r.exc # NoExc THEN Failed(r.exc, s1)
                 ELSE Done(update_time(
                          [s1 EXCEPT !.log = logger_remove(@, s.time, c)]))

\* Strategy.sell_container
sell_container(s, c) ==
    LET pre == AssertCanRemove(s, c)
    IN  IF pre # NoExc THEN Failed(pre, s)
        ELSE LET paid == add_cash(s.store, c.value).st
                 r == remove(paid, c)
                 s1 == [s EXCEPT !.store = r.st]
             IN  IF r.exc # NoExc THEN Failed(r.exc, s1)
                 ELSE Done(update_time(
                          [s1 EXCEPT !.log = logger_remove(@, s.time, c)]))

\* Strategy.move_container
move_container(s, c, p) ==
    LET ok == can_move(s.store, c, p)
    IN  IF ok.exc # NoExc THEN Failed(ok.exc, s)
        ELSE IF ~ok.val THEN Failed(AssertionError, s)
        ELSE LET r == move(s.store, c, p)
                 s1 == [s EXCEPT !.store = r.st]
             IN  IF r.exc # NoExc THEN Failed(r.exc, s1)
                 ELSE Done(update_time(
                          [s1 EXCEPT !.log = logger_move(@, s.time, c, p)]))

\* Strategy.add_container
add_container(s, c, p) ==
    LET ok == can_add(s.store, c, p)
    IN  IF ok.exc # NoExc THEN Failed(ok.exc, s)
        ELSE IF ~ok.val THEN Failed(AssertionError, s)
        ELSE LET r == add(s.store, c, p)
                 s1 == [s EXCEPT !.store = r.st]
             IN  IF r.exc # NoExc THEN Failed(r.exc, s1)
                 ELSE Done(update_time(
                          [s1 EXCEPT !.log = logger_add(@, s.time, c, p)]))

\* Strategy.evaluate_container: lost if expired, sold if deliverable, moved
\* to p_2 otherwise; nothing when it cannot be put on p_2 or is not on top
evaluate_container(s, c, p_2) ==
    LET a == can_add(s.store, c, p_2)
    IN  IF a.exc # NoExc THEN Failed(a.exc, s)
        ELSE IF ~a.val THEN Done(s)
        ELSE LET r == can_remove(s.store, c)
             IN  IF r.exc # NoExc THEN Failed(r.exc, s)
                 ELSE IF ~r.val THEN Done(s)
                 ELSE IF expired_container(s, c) THEN lose_container(s, c)
                 ELSE IF valid_container(s, c) THEN sell_container(s, c)
                 ELSE move_container(s, c, p_2)

\* Strategy.adjacent_stack: the other pile of the size of c
adjacent_stack(s, c) ==
    LET loc == s.store.map[c.identifier]
    IN  IF loc[2] = c.size * c.size THEN c.size * (c.size - 1)
        ELSE c.size * c.size

\* the sizes the strategy keeps piles for: range(1, 5)
NumClasses == 4

\* the weights of pile_score and the threshold min_score = 0.3 of exec, in
\* tenths; a score is kept as its numerator over ScoreMoney + ScoreCount
ScoreMoney == 3
ScoreCount == 1
MinScoreTenths == 3

\* the depth the two scans use: clipped to the height of the column
ScanDepth(s, p, depth) ==
    LET h == Len(Column(s.store, p)) IN IF depth - h > 0 THEN h ELSE depth

\* the container storage[p][d - i - 1] read by the i-th round of a scan
Scanned(s, p, d, i) == Obj(s, Column(s.store, p)[d - i])

\* Strategy.containers_from_pile: the loop from round i on
RECURSIVE containers_from(_, _, _, _)
containers_from(s, p, d, i) ==
    IF i >= d THEN 0
    ELSE LET c == Scanned(s, p, d, i)
         IN  (IF valid_container(s, c) \/ expired_container(s, c) THEN 1 ELSE 0)
             + containers_from(s, p, d, i + 1)

containers_from_pile(s, p, depth) ==
    containers_from(s, p, ScanDepth(s, p, depth), 0)

\* Strategy.money_from_pile: the loop from round i on, and the pair
\* (money, rem_time) it returns
RECURSIVE money_from(_, _, _, _)
money_from(s, p, d, i) ==
    IF i >= d THEN 0
    ELSE LET c == Scanned(s, p, d, i)
         IN  (IF valid_container_h(c, s.time + i) THEN c.value ELSE 0)
             + money_from(s, p, d, i + 1)

money_from_pile(s, p, depth) ==
    << money_from(s, p, ScanDepth(s, p, depth), 0),
       depth - Len(Column(s.store, p)) >>

\* Strategy.pile_score: <<score, rem_time>>
pile_score(s, p, depth) ==
    IF depth < 0 \/ ~valid_position(s.store, p) THEN Raise(AssertionError)
    ELSE LET money == money_from_pile(s, p, depth)
         IN  Return(<< ScoreMoney * money[1]
                         + ScoreCount * containers_from_pile(s, p, depth),
                       money[2] >>)

\* Strategy.better_pile; a pile is <<pos, score, rem_time>>
better_pile(s, pos, best, depth) ==
    LET sc == pile_score(s, pos, depth)
    IN  IF sc.exc # NoExc THEN sc
        ELSE IF best[2] < sc.val[1] \/ empty(s.store, best[1])
             THEN Return(<<pos, sc.val[1], sc.val[2]>>)
             ELSE Return(best)

\* Strategy.best_pile: the loop from size i on; it starts from
\* [0, -1, 0] and looks at pile i*i before pile i*(i-1)
RECURSIVE best_pile_from(_, _, _, _)
best_pile_from(s, i, best, depth) ==
    IF i > NumClasses THEN Return(best)
    ELSE LET b1 == better_pile(s, i * i, best, depth)
         IN  IF b1.exc # NoExc THEN b1
             ELSE LET b2 == better_pile(s, i * (i - 1), b1.val, depth)
                  IN  IF b2.exc # NoExc THEN b2
                      ELSE best_pile_from(s, i + 1, b2.val, depth)

best_pile(s, depth) ==
    IF depth < 0 THEN Raise(AssertionError)
    ELSE best_pile_from(s, 1, <<0, -(ScoreMoney + ScoreCount), 0>>, depth)

\* best_p[1] <= min_score
AtMostMinScore(score) == 10 * score <= MinScoreTenths * (ScoreMoney + ScoreCount)

\* the less occupied pile of a size taken to start at column size - 1 or
\* size instead of size * (size - 1) or size * size
least_full_pile_unscaled(s, c) ==
    LET h1 == strategy_height_column(s, stack_position(1, c.size))
    IN  IF h1.exc # NoExc THEN h1
        ELSE LET h2 == strategy_height_column(s, stack_position(2, c.size))
             IN  IF h2.exc # NoExc THEN h2
                 ELSE IF h1.val > h2.val THEN Return(c.size)
                 ELSE Return(c.size - 1)

\* Strategy.least_full_pile
least_full_pile(s, c) ==
    LET h1 == strategy_height_column(s, stack_position(1, c.size))
    IN  IF h1.exc # NoExc THEN h1
        ELSE LET h2 == strategy_height_column(s, stack_position(2, c.size))
             IN  IF h2.exc # NoExc THEN h2
                 ELSE IF h1.val > h2.val THEN Return(stack_position(2, c.size))
                 ELSE Return(stack_position(1, c.size))

Abs(x) == IF x < 0 THEN -x ELSE x

\* Strategy.least_equilibrated_pile: the loop from size i on;
\* the result is <<taller_pile, smaller_pile>>
RECURSIVE least_equilibrated_from(_, _, _, _)
least_equilibrated_from(s, i, max_entropy, result) ==
    IF i > NumClasses THEN Return(result)
    ELSE LET pos_1 == stack_position(1, i)
             pos_2 == stack_position(2, i)
             h1 == strategy_height_column(s, pos_1)
             h2 == strategy_height_column(s, pos_2)
         IN  IF h2.exc # NoExc THEN h2
             ELSE IF h1.exc # NoExc THEN h1
             ELSE IF max_entropy < Abs(h2.val - h1.val)
                  THEN least_equilibrated_from(
                           s, i + 1, Abs(h2.val - h1.val),
                           IF h2.val - h1.val > 0 THEN <<pos_2, pos_1>>
                           ELSE <<pos_1, pos_2>>)
                  ELSE least_equilibrated_from(s, i + 1, max_entropy, result)

\* the two piles given the other way round: <<smaller_pile, taller_pile>>
least_equilibrated_pile_swapped(s) ==
    LET r == least_equilibrated_from(s, 1, -1, <<>>)
    IN  IF r.exc # NoExc THEN r ELSE Return(<<r.val[2], r.val[1]>>)

least_equilibrated_pile(s) == least_equilibrated_from(s, 1, -1, <<>>)

\* Strategy.sort_by_cost: the deliverable containers of the list, then the
\* others, each group in the order of the list (the sorted copy of the first
\* group is dropped)
RECURSIVE SellPart(_, _)
SellPart(s, ids) ==
    IF ids = <<>> THEN <<>>
    ELSE (IF valid_container(s, Obj(s, Head(ids))) THEN <<Head(ids)>> ELSE <<>>)
         \o SellPart(s, Tail(ids))

RECURSIVE RemovePart(_, _)
RemovePart(s, ids) ==
    IF ids = <<>> THEN <<>>
    ELSE (IF valid_container(s, Obj(s, Head(ids))) THEN <<>> ELSE <<Head(ids)>>)
         \o RemovePart(s, Tail(ids))

sort_by_cost(s, ids) == SellPart(s, ids) \o RemovePart(s, ids)

(***************************************************************************)
(* A run of execute_strategy of src/expert.py                              *)
(*                                                                         *)
(* execute_strategy builds a Strategy and calls exec on each container of  *)
(* the input in turn.  The input is revealed one container at a time; a    *)
(* step is one call of exec up to its first loop, or one round of one of   *)
(* its loops (treat_removables before and after the intake, the loop of    *)
(* exec, dig_pile, equilibrate_piles).  pc names the loop the run is in,   *)
(* the other fields are the locals of that loop.                           *)
(***************************************************************************)
\* number of containers of the input
NumInput == 2
\* the times of the arrival and delivery windows of the input lie in 0..MaxTime
MaxTime == 3
\* the values of the containers of the input lie in 0..MaxValue
MaxValue == 1

\* the narrowest store that holds the two piles of every size
YardWidth == NumClasses * NumClasses + NumClasses

\* a width that holds the piles of the small sizes only
NarrowWidth == 4

\* the widths execute_strategy is run with
YardWidths == {NarrowWidth, YardWidth}

\* the containers that may come next: identifiers count the containers read
Inputs(id) ==
    { Container(id, size, value, TimeRange(0, aend), TimeRange(ds, de)) :
        size \in 1..MaxSize, value \in 0..MaxValue, aend \in 0..MaxTime,
        ds \in 0..MaxTime, de \in 0..MaxTime }

Run(s, pc) ==
    [ strategy |-> s, pc |-> pc, removables |-> <<>>, i |-> 0,
      rem_time |-> 0, best_p |-> <<>>, depth |-> 0, piles |-> <<>>,
      exc |-> NoExc ]

\* the run stopped by an exception that nothing catches
Raised(e, s) == [Run(s, "raised") EXCEPT !.exc = e]

\* the container exec was called with
Current(run) == run.strategy.seen[Len(run.strategy.seen)]

\* entering treat_removables: the list it works through
EnterTreat(s, pc) ==
    [Run(s, pc) EXCEPT !.removables = sort_by_cost(s, removable_containers(s))]

\* the loop condition and the body of treat_removables
TreatGoesOn(run, c, before_add) ==
    /\ run.i < Len(run.removables)
    /\ c.delivery.end > run.strategy.time
    /\ before_add => c.value < Obj(run.strategy, run.removables[run.i + 1]).value

TreatBody(s, r) ==
    IF expired_container(s, r) THEN lose_container(s, r)
    ELSE IF valid_container(s, r) THEN sell_container(s, r)
    ELSE Done(s)

\* leaving the second treat_removables: rem_time = c.arrival.end - self._time
EnterLoop(s, rem_time) == [Run(s, "loop") EXCEPT !.rem_time = rem_time]

InitExpert ==
    /\ \E width \in YardWidths : sched = Run(Strategy(width), "idle")
    /\ store = Store(Width)
    /\ lastOp = Op("Store", <<Width>>, "ok", "")
    /\ verif = None

\* execute_strategy calls exec on the next container c: treat_removables(c,
\* True) builds its list
exec_enter(run, c) ==
    EnterTreat([run.strategy EXCEPT !.seen = Append(@, c)], "before_add")

\* one round of the loop of treat_removables; when the loop of the first
\* call ends the intake follows, when the loop of the second call ends the
\* loop of exec follows
treat_round(run, before_add) ==
    LET s == run.strategy
        c == Current(run)
    IN  IF TreatGoesOn(run, c, before_add)
        THEN LET r == TreatBody(s, Obj(s, run.removables[run.i + 1]))
             IN  IF r.exc # NoExc THEN Raised(r.exc, r.st)
                 ELSE [run EXCEPT !.strategy = r.st, !.i = @ + 1]
        ELSE IF before_add THEN Run(s, "intake")
        ELSE EnterLoop(s, c.arrival.end - s.time)

\* the intake of exec, then treat_removables(c, False) builds its list
intake(run) ==
    LET s == run.strategy
        c == Current(run)
        pos_1 == least_full_pile(s, c)
        ok == can_add(s.store, c, pos_1.val)
    IN  IF pos_1.exc # NoExc THEN Raised(pos_1.exc, s)
        ELSE IF ok.exc # NoExc THEN Raised(ok.exc, s)
        ELSE IF ok.val /\ ~expired_container(s, c) /\ c.delivery.end > s.time
        THEN LET r == add_container(s, c, pos_1.val)
             IN  IF r.exc # NoExc THEN Raised(r.exc, r.st)
                 ELSE EnterTreat(r.st, "after_add")
        ELSE EnterTreat(s, "after_add")

\* one round of the loop of exec up to the call of dig_pile or of
\* equilibrate_piles; exec returns when the loop ends
loop_round(run) ==
    LET s == run.strategy
        best_p == best_pile(s, run.rem_time)
        piles == least_equilibrated_pile(s)
    IN  IF ~(run.rem_time > 0 /\ ~empty_store(s)) THEN Run(s, "idle")
        ELSE IF best_p.exc # NoExc THEN Raised(best_p.exc, s)
        ELSE IF AtMostMinScore(best_p.val[2])
        THEN IF piles.exc # NoExc THEN Raised(piles.exc, s)
             ELSE [Run(s, "equilibrate_piles") EXCEPT
                      !.rem_time = run.rem_time,
                      !.piles = piles.val]
        ELSE IF ~valid_position(s.store, best_p.val[1])
        THEN Raised(AssertionError, s)
        ELSE [Run(s, "dig_pile") EXCEPT
                 !.best_p = best_p.val,
                 !.depth = run.rem_time]

\* one round of the loop of dig_pile; when it ends rem_time = best_p[2]
dig_round(run) ==
    LET s == run.strategy
        p == run.best_p[1]
    IN  IF run.depth > 0 /\ ~empty(s.store, p)
        THEN LET c == Obj(s, Column(s.store, p)[Len(Column(s.store, p))])
                 r == evaluate_container(s, c, adjacent_stack(s, c))
             IN  IF r.exc # NoExc THEN Raised(r.exc, r.st)
                 ELSE [run EXCEPT !.strategy = r.st, !.depth = @ - 1]
        ELSE EnterLoop(s, run.best_p[3])

\* a round of equilibrate_piles that does not count its time
equilibrate_round_untimed(run) ==
    LET s == run.strategy
        big_pile == run.piles[1]
        small_pile == run.piles[2]
        hb == strategy_height_column(s, big_pile)
        hs == strategy_height_column(s, small_pile)
    IN  IF run.rem_time > 0 /\ hb.val >= hs.val
        THEN IF ~empty(s.store, big_pile)
             THEN LET c == Obj(s, Column(s.store, big_pile)[hb.val])
                      r == move_container(s, c, small_pile)
                  IN  IF r.exc # NoExc THEN Raised(r.exc, r.st)
                      ELSE [run EXCEPT !.strategy = r.st]
             ELSE [run EXCEPT !.rem_time = @ - 1]
        ELSE EnterLoop(s, IF empty_store(s) THEN 0 ELSE run.rem_time)

\* one round of the loop of equilibrate_piles; when it ends rem_time is what
\* it returns
equilibrate_round(run) ==
    LET s == run.strategy
        big_pile == run.piles[1]
        small_pile == run.piles[2]
        hb == strategy_height_column(s, big_pile)
        hs == strategy_height_column(s, small_pile)
    IN  IF run.rem_time > 0 /\ hb.val >= hs.val
        THEN IF ~empty(s.store, big_pile)
             THEN LET c == Obj(s, Column(s.store, big_pile)[hb.val])
                      r == move_container(s, c, small_pile)
                  IN  IF r.exc # NoExc THEN Raised(r.exc, r.st)
                      ELSE [run EXCEPT !.strategy = r.st, !.rem_time = @ - 1]
             ELSE [run EXCEPT !.rem_time = @ - 1]
        ELSE EnterLoop(s, IF empty_store(s) THEN 0 ELSE run.rem_time)

\* the containers the input may go on with: none once NumInput were read
NextInputs(run) ==
    IF Len(run.strategy.seen) < NumInput
    THEN { c \in Inputs(Len(run.strategy.seen) + 1) :
             c.delivery.start <= c.delivery.end }
    ELSE {}

Exec ==
    /\ sched.pc = "idle"
    /\ \E c \in NextInputs(sched) : sched' = exec_enter(sched, c)
    /\ UNCHANGED <<store, lastOp, verif>>

TreatBefore ==
    /\ sched.pc = "before_add"
    /\ sched' = treat_round(sched, TRUE)
    /\ UNCHANGED <<store, lastOp, verif>>

Intake ==
    /\ sched.pc = "intake"
    /\ sched' = intake(sched)
    /\ UNCHANGED <<store, lastOp, verif>>

TreatAfter ==
    /\ sched.pc = "after_add"
    /\ sched' = treat_round(sched, FALSE)
    /\ UNCHANGED <<store, lastOp, verif>>

Loop ==
    /\ sched.pc = "loop"
    /\ sched' = loop_round(sched)
    /\ UNCHANGED <<store, lastOp, verif>>

DigPile ==
    /\ sched.pc = "dig_pile"
    /\ sched' = dig_round(sched)
    /\ UNCHANGED <<store, lastOp, verif>>

EquilibratePiles ==
    /\ sched.pc = "equilibrate_piles"
    /\ sched' = equilibrate_round(sched)
    /\ UNCHANGED <<store, lastOp, verif>>

NextExpert ==
    \/ Exec
    \/ TreatBefore
    \/ Intake
    \/ TreatAfter
    \/ Loop
    \/ DigPile
    \/ EquilibratePiles

SpecExpert == InitExpert /\ [][NextExpert]_vars

(***************************************************************************)
(* Longer runs of execute_strategy over containers of one size             *)
(*                                                                         *)
(* The same steps of exec, in the yard of YardWidth columns, over an input *)
(* of NumFlushInput containers of size 1 whose delivery windows last one   *)
(* unit of time: runs in which a call of exec finds several containers in  *)
(* the yard and piles hold more than one container.                        *)
(***************************************************************************)
\* number of containers of the input of the longer runs
NumFlushInput == 3

FlushInputs(id) ==
    { Container(id, 1, value, TimeRange(0, aend), TimeRange(ds, ds + 1)) :
        value \in 0..MaxValue, aend \in 0..MaxTime, ds \in 0..MaxTime }

NextFlushInputs(run) ==
    IF Len(run.strategy.seen) < NumFlushInput
    THEN FlushInputs(Len(run.strategy.seen) + 1)
    ELSE {}

InitFlush ==
    /\ sched = Run(Strategy(YardWidth), "idle")
    /\ store = Store(Width)
    /\ lastOp = Op("Store", <<Width>>, "ok", "")
    /\ verif = None

ExecFlush ==
    /\ sched.pc = "idle"
    /\ \E c \in NextFlushInputs(sched) : sched' = exec_enter(sched, c)
    /\ UNCHANGED <<store, lastOp, verif>>

NextFlush ==
    \/ ExecFlush
    \/ TreatBefore
    \/ Intake
    \/ TreatAfter
    \/ Loop
    \/ DigPile
    \/ EquilibratePiles

SpecFlush == InitFlush /\ [][NextFlush]_vars

(***************************************************************************)
(* class Strategy and execute_strategy of src/simple.py                    *)
(*                                                                         *)
(* The simple strategy keeps the same record of _store, _time and log as   *)
(* the expert one; its expired_container, valid_container, stack_position, *)
(* lose_container, move_container, evaluate_container, empty_store and     *)
(* update_time have the text of their namesakes of src/expert.py, and its  *)
(* sold_container the text of sell_container.  A step is the entry of      *)
(* exec up to its while loop, one test of that loop, the entry of one call *)
(* of transfer up to its loop, or one round of the loop of transfer.       *)
(***************************************************************************)
\* Strategy.valid_position of src/simple.py
simple_valid_position(s, p) == p < s.store.width

\* Strategy.add_container of src/simple.py: no assertion before the add
simple_add_container(s, c, p) ==
    LET r == add(s.store, c, p)
        s1 == [s EXCEPT !.store = r.st]
    IN  IF r.exc # NoExc THEN Failed(r.exc, s1)
        ELSE Done(update_time([s1 EXCEPT !.log = logger_add(@, s.time, c, p)]))

\* the run of the simple strategy: the Strategy, the place in exec, and
\* the locals of the for loop (the size whose piles are transferred, and
\* whether the transfer is the one from the first pile to the second)
SimpleRun(s, pc) ==
    [ strategy |-> s, pc |-> pc, width_pile |-> 0, first |-> TRUE,
      exc |-> NoExc ]

SimpleRaised(e, s) == [SimpleRun(s, "raised") EXCEPT !.exc = e]

\* the call transfer(p_1, p_2, c.arrival.end) the run is at
TransferCall(s, width_pile, first) ==
    [SimpleRun(s, "transfer") EXCEPT !.width_pile = width_pile, !.first = first]

\* the piles p_1 and p_2 of the call of transfer the run is in
TransferFrom(run) ==
    stack_position(IF run.first THEN 1 ELSE 2, run.width_pile)

TransferTo(run) ==
    stack_position(IF run.first THEN 2 ELSE 1, run.width_pile)

\* exec of src/simple.py up to its while loop
simple_exec_enter(run, c) ==
    LET s == [run.strategy EXCEPT !.seen = Append(@, c)]
        pos_1 == stack_position(1, c.size)
        ok == can_add(s.store, c, pos_1)
    IN  IF ok.exc # NoExc THEN SimpleRaised(ok.exc, s)
        ELSE IF ok.val /\ ~expired_container(s, c)
        THEN LET r == simple_add_container(s, c, pos_1)
             IN  IF r.exc # NoExc THEN SimpleRaised(r.exc, r.st)
                 ELSE SimpleRun(r.st, "while")
        ELSE SimpleRun(s, "while")

\* the test of the while loop of exec: the for loop starts with the
\* transfer from the first pile of size 1, or exec returns
simple_while(run) ==
    LET s == run.strategy
    IN  IF s.time < Current(run).arrival.end THEN TransferCall(s, 1, TRUE)
        ELSE SimpleRun(s, "idle")

\* transfer up to its loop: the assertion, and the tick of an empty store
transfer_enter(run) ==
    LET s == run.strategy
    IN  IF ~(simple_valid_position(s, TransferFrom(run))
             /\ simple_valid_position(s, TransferTo(run)))
        THEN SimpleRaised(AssertionError, s)
        ELSE [run EXCEPT !.pc = "transfer_loop",
                         !.strategy = IF empty_store(s) THEN update_time(s)
                                      ELSE s]

\* one round of the loop of transfer; when the loop ends the next call of
\* transfer of the for loop follows, or the test of the while loop
transfer_round(run) ==
    LET s == run.strategy
        p_1 == TransferFrom(run)
    IN  IF ~empty(s.store, p_1) /\ Current(run).arrival.end > s.time
        THEN LET c == Obj(s, Column(s.store, p_1)[Len(Column(s.store, p_1))])
                 r == evaluate_container(s, c, TransferTo(run))
             IN  IF r.exc # NoExc THEN SimpleRaised(r.exc, r.st)
                 ELSE [run EXCEPT !.strategy = r.st]
        ELSE IF run.first THEN TransferCall(s, run.width_pile, FALSE)
        ELSE IF run.width_pile < NumClasses
        THEN TransferCall(s, run.width_pile + 1, TRUE)
        ELSE SimpleRun(s, "while")

InitSimple ==
    /\ \E width \in YardWidths : sched = SimpleRun(Strategy(width), "idle")
    /\ store = Store(Width)
    /\ lastOp = Op("Store", <<Width>>, "ok", "")
    /\ verif = None

SimpleExec ==
    /\ sched.pc = "idle"
    /\ \E c \in NextInputs(sched) : sched' = simple_exec_enter(sched, c)
    /\ UNCHANGED <<store, lastOp, verif>>

SimpleWhile ==
    /\ sched.pc = "while"
    /\ sched' = simple_while(sched)
    /\ UNCHANGED <<store, lastOp, verif>>

TransferEnter ==
    /\ sched.pc = "transfer"
    /\ sched' = transfer_enter(sched)
    /\ UNCHANGED <<store, lastOp, verif>>

TransferRound ==
    /\ sched.pc = "transfer_loop"
    /\ sched' = transfer_round(sched)
    /\ UNCHANGED <<store, lastOp, verif>>

NextSimple ==
    \/ SimpleExec
    \/ SimpleWhile
    \/ TransferEnter
    \/ TransferRound

SpecSimple == InitSimple /\ [][NextSimple]_vars

(***************************************************************************)
(* check_and_show of src/store.py: the replay of a log                     *)
(*                                                                         *)
(* The locals of check_and_show are the record of store, last and the      *)
(* exception that ended it ("" while it runs).                             *)
(***************************************************************************)
KeyError == "KeyError"

\* containers_map = {c.identifier: c for c in containers_list}: of two
\* containers with one identifier the later one stays
containers_map(containers_list) ==
    [ id \in { containers_list[k].identifier : k \in 1..Len(containers_list) } |->
        LET last == CHOOSE k \in 1..Len(containers_list) :
                        /\ containers_list[k].identifier = id
                        /\ \A j \in (k + 1)..Len(containers_list) :
                               containers_list[j].identifier # id
        IN  containers_list[last] ]

\* the first line: three assertions, then store = Store(width), last = 0
check_first(tokens) ==
    IF Len(tokens) # 4 \/ tokens[1] # <<"0">> \/ tokens[2] # "START"
    THEN [store |-> Store(0), last |-> 0, exc |-> AssertionError]
    ELSE [store |-> Store(int(tokens[4])), last |-> 0, exc |-> NoExc]

\* an exception ends the replay and leaves the store as st
Rejected(v, e, st) == [v EXCEPT !.exc = e, !.store = st]

\* a CASH line that is not compared with the cash of the store
check_cash_unchecked(v, tokens) == v

\* a CASH line
check_cash(v, tokens) ==
    IF int(tokens[3]) # v.store.cash THEN Rejected(v, AssertionError, v.store)
    ELSE v

\* an ADD line
check_add(v, tokens, cmap) ==
    LET identifier == int(tokens[3])
        position == int(tokens[4])
    IN  IF identifier \notin DOMAIN cmap THEN Rejected(v, KeyError, v.store)
        ELSE LET r == add(v.store, cmap[identifier], position)
             IN  Rejected(v, r.exc, r.st)

\* a REMOVE line credited whatever its timestamp
check_remove_always_paid(v, tokens, time, cmap) ==
    LET identifier == int(tokens[3])
    IN  IF identifier \notin DOMAIN cmap THEN Rejected(v, KeyError, v.store)
        ELSE LET container == cmap[identifier]
                 r == remove(v.store, container)
             IN  IF r.exc # NoExc THEN Rejected(v, r.exc, r.st)
                 ELSE [v EXCEPT !.store = add_cash(r.st, container.value).st]

\* a REMOVE line: the removal, then the credit of a delivery in time
check_remove(v, tokens, time, cmap) ==
    LET identifier == int(tokens[3])
    IN  IF identifier \notin DOMAIN cmap THEN Rejected(v, KeyError, v.store)
        ELSE LET container == cmap[identifier]
                 r == remove(v.store, container)
             IN  IF r.exc # NoExc THEN Rejected(v, r.exc, r.st)
                 ELSE IF container.delivery.start <= time
                         /\ time < container.delivery.end
                 THEN [v EXCEPT !.store = add_cash(r.st, container.value).st]
                 ELSE [v EXCEPT !.store = r.st]

\* a MOVE line
check_move(v, tokens, cmap) ==
    LET identifier == int(tokens[3])
        position == int(tokens[4])
    IN  IF identifier \notin DOMAIN cmap THEN Rejected(v, KeyError, v.store)
        ELSE LET r == move(v.store, cmap[identifier], position)
             IN  Rejected(v, r.exc, r.st)

\* one round of the loop over lines[1:]
check_line(v, tokens, cmap) ==
    LET time == int(tokens[1])
        what == tokens[2]
    IN  IF ~(time >= v.last) THEN Rejected(v, AssertionError, v.store)
        ELSE LET v1 == [v EXCEPT !.last = time]
             IN  IF what = "CASH" THEN check_cash(v1, tokens)
                 ELSE IF what = "ADD" THEN check_add(v1, tokens, cmap)
                 ELSE IF what = "REMOVE" THEN check_remove(v1, tokens, time, cmap)
                 ELSE IF what = "MOVE" THEN check_move(v1, tokens, cmap)
                 ELSE Rejected(v1, AssertionError, v1.store)

\* the loop over lines[1:], from line k on; an exception ends it
RECURSIVE check_from(_, _, _, _)
check_from(v, lines, k, cmap) ==
    IF k > Len(lines) \/ v.exc # NoExc THEN v
    ELSE check_from(check_line(v, lines[k], cmap), lines, k + 1, cmap)

\* check_and_show without the display
check_and_show(containers_list, lines) ==
    check_from(check_first(lines[1]), lines, 2, containers_map(containers_list))

(***************************************************************************)
(* A run of check_and_show over an arbitrary log                           *)
(*                                                                         *)
(* The log starts with the START line of a store of Width columns; its     *)
(* other lines are revealed one at a time, and a step is one round of the  *)
(* loop over them.  verif holds the locals of check_and_show and the kind  *)
(* of the line read last.                                                  *)
(***************************************************************************)
\* the containers file of the replay: container i has size SizeOf(i), value
\* i and the delivery window [i - 1, i)
VerifierContainers ==
    [ i \in Ids |->
        Container(i, SizeOf(i), i, TimeRange(0, 1), TimeRange(i - 1, i)) ]

VerifierMap == containers_map(VerifierContainers)

\* the timestamps, amounts and positions that the lines of the log carry
LineTimes == 0..MaxTime
LineAmounts == 0..(MaxCash + 1)
LinePositions == 0..(Width - 1)

CashLine(t, amount) == <<str(t), "CASH", str(amount)>>
AddLine(t, id, p) == <<str(t), "ADD", str(id), str(p)>>
RemoveLine(t, id) == <<str(t), "REMOVE", str(id)>>
MoveLine(t, id, p) == <<str(t), "MOVE", str(id), str(p)>>
StartLine(t) == <<str(t), "START", LoggerName, str(Width)>>

InitVerifier ==
    /\ verif = [v |-> check_first(Logger(LoggerName, Width)[1]), what |-> "START"]
    /\ store = Store(Width)
    /\ lastOp = Op("Store", <<Width>>, "ok", "")
    /\ sched = None

\* the verifier is still reading
Reading == verif.v.exc = NoExc

\* one round of the loop on the line made of tokens
ReadLine(tokens) ==
    /\ verif' = [v |-> check_line(verif.v, tokens, VerifierMap), what |-> tokens[2]]
    /\ HeightWithin(verif'.v.store)
    /\ verif'.v.store.cash <= MaxCash
    /\ UNCHANGED <<store, lastOp, sched>>

ReadCash ==
    \E t \in LineTimes, amount \in LineAmounts :
        /\ Reading
        /\ ReadLine(CashLine(t, amount))

\* the log adds a container that the replayed store does not hold
ReadAdd ==
    \E t \in LineTimes, id \in Ids, p \in LinePositions :
        /\ Reading
        /\ id \notin DOMAIN verif.v.store.map
        /\ ReadLine(AddLine(t, id, p))

ReadRemove ==
    \E t \in LineTimes, id \in Ids :
        /\ Reading
        /\ ReadLine(RemoveLine(t, id))

ReadMove ==
    \E t \in LineTimes, id \in Ids, p \in LinePositions :
        /\ Reading
        /\ ReadLine(MoveLine(t, id, p))

\* a line of another kind
ReadOther ==
    \E t \in LineTimes :
        /\ Reading
        /\ ReadLine(StartLine(t))

NextVerifier ==
    \/ ReadCash
    \/ ReadAdd
    \/ ReadRemove
    \/ ReadMove
    \/ ReadOther

SpecVerifier == InitVerifier /\ [][NextVerifier]_vars

(***************************************************************************)
(* Vocabulary of the properties of a run of the expert strategy            *)
(***************************************************************************)
\* the yard and the clock of the strategy, the lines of its log
Yard == sched.strategy.store
Clock == sched.strategy.time
LogLines == sched.strategy.log

\* the kinds of the records written after the START line
LogKinds == { LogLines[k][2] : k \in 2..Len(LogLines) }

\* the runs one step after run: exec is entered with any container the
\* input may go on with, a run inside exec takes the round of its loop, a
\* run stopped by an exception goes nowhere
OneStep(run) ==
    IF run.pc = "idle" THEN { exec_enter(run, c) : c \in NextInputs(run) }
    ELSE IF run.pc = "before_add" THEN { treat_round(run, TRUE) }
    ELSE IF run.pc = "intake" THEN { intake(run) }
    ELSE IF run.pc = "after_add" THEN { treat_round(run, FALSE) }
    ELSE IF run.pc = "loop" THEN { loop_round(run) }
    ELSE IF run.pc = "dig_pile" THEN { dig_round(run) }
    ELSE IF run.pc = "equilibrate_piles" THEN { equilibrate_round(run) }
    ELSE {}

\* the step to nxt mutated the yard: a container was added, moved or removed
YardMutated(nxt) == nxt.strategy.store # Yard

\* the containers the step to nxt put into the yard, took out of it, put
\* elsewhere in it
Added(nxt) ==
    { id \in DOMAIN nxt.strategy.store.map : id \notin DOMAIN Yard.map }

Removed(nxt) ==
    { id \in DOMAIN Yard.map : id \notin DOMAIN nxt.strategy.store.map }

Moved(nxt) ==
    { id \in DOMAIN Yard.map \cap DOMAIN nxt.strategy.store.map :
        nxt.strategy.store.map[id] # Yard.map[id] }

\* the step to nxt appended the line rec, and nothing else, to the log
Logged(nxt, rec) == nxt.strategy.log = Append(LogLines, rec)

\* t lies in the delivery window of c
InDelivery(c, t) == c.delivery.start <= t /\ t < c.delivery.end

(* C11: In a run of the expert strategy the clock starts at 0; a step      *)
(* that adds, moves or removes a container advances it by exactly 1 and a  *)
(* step that leaves the yard as it was (a candidate passed over, a guard   *)
(* that fails, a round of equilibrate_piles on an empty pile) leaves the   *)
(* clock as it was; so the clock never decreases.                          *)
C11_ClockCountsMutations ==
    /\ Len(LogLines) = 1 => Clock = 0
    /\ \A nxt \in OneStep(sched) :
          /\ YardMutated(nxt) => nxt.strategy.time = Clock + 1
          /\ ~YardMutated(nxt) => nxt.strategy.time = Clock

\* a run that added, moved and removed containers, back between two calls
\* of exec
C11_Witness ==
    /\ sched.pc = "idle"
    /\ {"ADD", "MOVE", "REMOVE"} \subseteq LogKinds
    /\ Clock >= 3

(* C12: In a run of the expert strategy over containers of non-negative    *)
(* value the cash of the yard never decreases, and a step that raises it   *)
(* raises it by exactly the value of a container which that step removes   *)
(* at a clock value inside the delivery window of that container.          *)
C12_CashOnlyFromSales ==
    \A nxt \in OneStep(sched) :
        /\ nxt.strategy.store.cash >= Yard.cash
        /\ nxt.strategy.store.cash # Yard.cash =>
             \E id \in Removed(nxt) :
                LET c == Obj(sched.strategy, id)
                IN  /\ nxt.strategy.store.cash = Yard.cash + c.value
                    /\ InDelivery(c, Clock)

\* the record of line k of the log is the removal of a container at a time
\* inside / not before the end of its delivery window
IsSale(k) ==
    /\ LogLines[k][2] = "REMOVE"
    /\ InDelivery(Obj(sched.strategy, int(LogLines[k][3])), int(LogLines[k][1]))

IsLoss(k) ==
    /\ LogLines[k][2] = "REMOVE"
    /\ int(LogLines[k][1]) >= Obj(sched.strategy, int(LogLines[k][3])).delivery.end

\* a container of positive value was sold and the cash is its value
C12_Witness ==
    \E k \in 2..Len(LogLines) :
        /\ IsSale(k)
        /\ Yard.cash = Obj(sched.strategy, int(LogLines[k][3])).value
        /\ Yard.cash > 0

(* C13: In a run of the expert strategy no container leaves the yard at a  *)
(* clock value earlier than the start of its delivery window: a removal    *)
(* happens either inside the window and is a sale (the cash rises by the   *)
(* value) or at or after the end of the window and is a loss (the cash     *)
(* stays).                                                                 *)
C13_NoRemovalBeforeDelivery ==
    \A nxt \in OneStep(sched) :
        \A id \in Removed(nxt) :
            LET c == Obj(sched.strategy, id)
            IN  /\ Clock >= c.delivery.start
                /\ \/ /\ InDelivery(c, Clock)
                      /\ nxt.strategy.store.cash = Yard.cash + c.value
                   \/ /\ Clock >= c.delivery.end
                      /\ nxt.strategy.store.cash = Yard.cash

\* a container of positive value was lost after the end of its delivery
\* window, which was not empty, and the cash stayed 0
C13_Witness ==
    \E k \in 2..Len(LogLines) :
        LET c == Obj(sched.strategy, int(LogLines[k][3]))
        IN  /\ IsLoss(k)
            /\ c.delivery.start < c.delivery.end
            /\ c.value > 0
            /\ Yard.cash = 0

\* the container on top of column p of the yard
TopOf(p) == Column(Yard, p)[Len(Column(Yard, p))]

\* the container that the step about to be taken looks at: the candidate of
\* a round of treat_removables, the top of the pile dug by dig_pile, the
\* top of the taller pile of equilibrate_piles
MetByTreat ==
    IF /\ sched.pc \in {"before_add", "after_add"}
       /\ TreatGoesOn(sched, Current(sched), sched.pc = "before_add")
    THEN {sched.removables[sched.i + 1]} ELSE {}

MetByDig ==
    IF /\ sched.pc = "dig_pile"
       /\ sched.depth > 0
       /\ ~empty(Yard, sched.best_p[1])
    THEN {TopOf(sched.best_p[1])} ELSE {}

MetByEquilibrate ==
    IF /\ sched.pc = "equilibrate_piles"
       /\ sched.rem_time > 0
       /\ Len(Column(Yard, sched.piles[1])) >= Len(Column(Yard, sched.piles[2]))
       /\ ~empty(Yard, sched.piles[1])
    THEN {TopOf(sched.piles[1])} ELSE {}

\* the step to nxt takes the container out of the yard and credits nothing
EvictedUnpaid(nxt, id) ==
    /\ id \in Removed(nxt)
    /\ nxt.strategy.store.cash = Yard.cash

\* the container can be removed and its delivery window has ended
RemovableExpired(id) ==
    /\ IsRemovable(sched.strategy, Obj(sched.strategy, id))
    /\ Obj(sched.strategy, id).delivery.end <= Clock

(* C14: Whenever a step of the expert strategy (a round of treat_removables *)
(* before or after the intake, of dig_pile or of equilibrate_piles) looks   *)
(* at a removable container whose delivery window ended at or before the    *)
(* clock, that step takes the container out of the yard and the cash stays  *)
(* as it was, whatever the value of the container.                          *)
C14_ExpiredEvicted ==
    \A nxt \in OneStep(sched) :
        \A id \in MetByTreat \cup MetByDig \cup MetByEquilibrate :
            RemovableExpired(id) => EvictedUnpaid(nxt, id)

(* C15: The log written by a run of the expert strategy (yard wide enough  *)
(* for the two piles of every size, unique identifiers) replays on a store *)
(* of the same width with the same containers without any exception: after *)
(* every record the replayed store is equal to the store of the strategy,  *)
(* columns, index, list of containers and cash alike, so every ADD, MOVE   *)
(* and REMOVE record was legal where it was replayed and the final cash of *)
(* the replay is the final cash of the strategy.                           *)
C15_ReplayMatches ==
    LET v == check_and_show(sched.strategy.seen, LogLines)
    IN  /\ v.exc = NoExc
        /\ v.store = Yard
        /\ v.last = IF Len(LogLines) = 1 THEN 0 ELSE Clock - 1

\* a finished call of exec whose log holds an ADD, a MOVE and the REMOVE of
\* a sale
C15_Witness ==
    /\ sched.pc = "idle"
    /\ {"ADD", "MOVE"} \subseteq LogKinds
    /\ \E k \in 2..Len(LogLines) : IsSale(k)
    /\ Yard.cash > 0

(***************************************************************************)
(* Vocabulary of the properties of a replay                                *)
(***************************************************************************)
\* the locals of the replay, and what reading one more line makes of them
Replay == verif.v
AfterLine(tokens) == check_line(Replay, tokens, VerifierMap)

\* moving c to p is not a legal relocation: c has a container above it, or
\* the columns p .. p+size-1 are not one flat surface inside the store
IllegalMove(st, c, p) == ~NothingAbove(st, c) \/ ~FlatAt(st, c, p)

(* C16: The replay fails at every MOVE record that is not a legal          *)
(* relocation on the replayed store (the container is not on top, or the   *)
(* destination footprint is not flat): whatever the replayed store, reading *)
(* such a record ends check_and_show with an exception.                    *)
C16_IllegalMoveRejected ==
    Reading =>
        \A t \in LineTimes, id \in Ids, p \in LinePositions :
            ( /\ IsPresent(Replay.store, VerifierMap[id])
              /\ IllegalMove(Replay.store, VerifierMap[id], p) )
            => AfterLine(MoveLine(t, id, p)).exc # NoExc

(* C17: Reading a REMOVE record of container c with timestamp t that the   *)
(* replayed store accepts takes c out of the store and raises the cash of  *)
(* the replay by c.value when delivery.start <= t < delivery.end and       *)
(* leaves it as it was otherwise; reading an ADD or a MOVE record never    *)
(* changes the cash of the replay.                                         *)
C17_CreditOnTimelyRemove ==
    Reading =>
        /\ \A t \in LineTimes, id \in Ids :
              LET c == VerifierMap[id]
                  w == AfterLine(RemoveLine(t, id))
              IN  IF w.exc = NoExc
                  THEN /\ ~IsPresent(w.store, c)
                       /\ w.store.cash = Replay.store.cash
                             + (IF InDelivery(c, t) THEN c.value ELSE 0)
                  ELSE w.store.cash = Replay.store.cash
        /\ \A t \in LineTimes, id \in Ids, p \in LinePositions :
              /\ AfterLine(AddLine(t, id, p)).store.cash = Replay.store.cash
              /\ AfterLine(MoveLine(t, id, p)).store.cash = Replay.store.cash

\* a REMOVE record was read and accepted, cash was credited, and a REMOVE
\* record outside the delivery window of its container would be accepted now
C17_Witness ==
    /\ verif.what = "REMOVE"
    /\ Reading
    /\ Replay.store.cash > 0
    /\ \E t \in LineTimes, id \in Ids :
          /\ ~InDelivery(VerifierMap[id], t)
          /\ AfterLine(RemoveLine(t, id)).exc = NoExc

(* C18: The replay fails at every CASH record whose amount differs from    *)
(* the cash of the replayed store at that point and at every record whose  *)
(* timestamp is smaller than the timestamp of the record before it; a CASH *)
(* record with the amount of the replayed store and a timestamp that is    *)
(* not smaller is accepted and changes nothing but last.                   *)
C18_CashAndTimeChecked ==
    Reading =>
        /\ \A t \in LineTimes, amount \in LineAmounts :
              LET w == AfterLine(CashLine(t, amount))
              IN  /\ amount # Replay.store.cash => w.exc # NoExc
                  /\ (amount = Replay.store.cash /\ t >= Replay.last)
                        => w = [Replay EXCEPT !.last = t]
        /\ \A t \in LineTimes, id \in Ids, p \in LinePositions :
              t < Replay.last =>
                  /\ AfterLine(CashLine(t, Replay.store.cash)).exc # NoExc
                  /\ AfterLine(AddLine(t, id, p)).exc # NoExc
                  /\ AfterLine(RemoveLine(t, id)).exc # NoExc
                  /\ AfterLine(MoveLine(t, id, p)).exc # NoExc

\* a CASH record was rejected by a replay that has cash and a timestamp
\* above 0
C18_Witness ==
    /\ verif.what = "CASH"
    /\ Replay.exc = AssertionError
    /\ Replay.store.cash > 0
    /\ Replay.last > 0

(* C19: In a run of the expert strategy a step that adds, removes or moves *)
(* a container appends exactly one line to the log, of the matching kind   *)
(* (ADD with the column, REMOVE, MOVE with the new column), naming the     *)
(* container and stamped with the clock value before the step; a step that *)
(* leaves the yard as it was appends nothing.  Hence the lines after the   *)
(* START line are ADD, REMOVE or MOVE lines and the k-th of them carries   *)
(* the timestamp k - 1.                                                    *)
C19_OneRecordPerMutation ==
    /\ \A k \in 2..Len(LogLines) :
          /\ LogLines[k][2] \in {"ADD", "REMOVE", "MOVE"}
          /\ int(LogLines[k][1]) = k - 2
    /\ \A nxt \in OneStep(sched) :
          LET after == nxt.strategy.store
          IN  /\ \A id \in Added(nxt) :
                    /\ Logged(nxt, <<str(Clock), "ADD", str(id), str(after.map[id][2])>>)
                    /\ Removed(nxt) = {} /\ Moved(nxt) = {}
              /\ \A id \in Removed(nxt) :
                    /\ Logged(nxt, <<str(Clock), "REMOVE", str(id)>>)
                    /\ Added(nxt) = {} /\ Moved(nxt) = {}
              /\ \A id \in Moved(nxt) :
                    /\ Logged(nxt, <<str(Clock), "MOVE", str(id), str(after.map[id][2])>>)
                    /\ Added(nxt) = {} /\ Removed(nxt) = {} /\ Moved(nxt) = {id}
              /\ YardMutated(nxt) => Added(nxt) \cup Removed(nxt) \cup Moved(nxt) # {}
              /\ ~YardMutated(nxt) => nxt.strategy.log = LogLines

\* a log whose first records are an ADD, a MOVE and a REMOVE, in a run that
\* is inside a later call of exec
C19_Witness ==
    /\ Len(LogLines) >= 4
    /\ LogLines[2][2] = "ADD"
    /\ LogLines[3][2] = "MOVE"
    /\ LogLines[4][2] = "REMOVE"
    /\ Len(sched.strategy.seen) = 2

\* the input is one container of size 1 that can be delivered at time 1 and
\* whose arrival window ends after time 1, and exec has returned
SingleDeliverable ==
    /\ sched.pc = "idle"
    /\ Len(sched.strategy.seen) = 1
    /\ sched.strategy.seen[1].size = 1
    /\ InDelivery(sched.strategy.seen[1], 1)
    /\ sched.strategy.seen[1].arrival.end > 1

(* C20: When the whole input is one container of size 1 with               *)
(* delivery.start <= 1 < delivery.end and arrival.end > 1, the run of the  *)
(* expert strategy adds it at time 0 to column 0 or 1, then removes it at  *)
(* a time inside its delivery window and not later than 2, and ends with   *)
(* an empty yard and a cash equal to the value of the container.           *)
C20_SingleContainerSold ==
    SingleDeliverable =>
        LET c == sched.strategy.seen[1]
        IN  /\ LogLines[2][1] = str(0)
            /\ LogLines[2][2] = "ADD"
            /\ int(LogLines[2][3]) = c.identifier
            /\ int(LogLines[2][4]) \in {0, 1}
            /\ \E k \in 3..Len(LogLines) :
                  /\ LogLines[k][2] = "REMOVE"
                  /\ int(LogLines[k][3]) = c.identifier
                  /\ InDelivery(c, int(LogLines[k][1]))
                  /\ int(LogLines[k][1]) <= 2
            /\ empty_store(sched.strategy)
            /\ \A p \in 0..(Yard.width - 1) : empty(Yard, p)
            /\ Yard.cash = c.value

\* the run in a yard of NarrowWidth columns over one container of value
\* MaxValue, arrival window [0, MaxTime) and delivery window [1, 3) has ended
C20_Witness ==
    /\ SingleDeliverable
    /\ Yard.width = NarrowWidth
    /\ sched.strategy.seen[1].value = MaxValue
    /\ sched.strategy.seen[1].arrival = TimeRange(0, MaxTime)
    /\ sched.strategy.seen[1].delivery = TimeRange(1, 3)
    /\ Yard.cash = MaxValue

(***************************************************************************)
(* The phases of exec                                                      *)
(***************************************************************************)
\* treat_removables has just built its list: before the intake (pre-flush)
\* or after it (post-flush)
PreFlush == sched.pc = "before_add"
PostFlush == sched.pc = "after_add"
ListBuilt == (PreFlush \/ PostFlush) /\ sched.i = 0

\* the candidate can be delivered at the clock
Sellable(id) == valid_container(sched.strategy, Obj(sched.strategy, id))

\* the place of x in a list without repetitions
PlaceIn(list, x) == CHOOSE k \in 1..Len(list) : list[k] = x

(* C22: The list that treat_removables works through, before and after    *)
(* the intake, holds the removable containers of the yard: first those    *)
(* that can be delivered at the clock, by descending value, then the      *)
(* others in the order of the yard's list of containers; and a round that *)
(* sells a candidate leaves no more valuable deliverable candidate later  *)
(* in the list.                                                            *)
C22_SellableFirstByValue ==
    LET list == sched.removables
        value(k) == Obj(sched.strategy, list[k]).value
    IN  /\ ListBuilt =>
             /\ list = sort_by_cost(sched.strategy,
                                    removable_containers(sched.strategy))
             /\ \A j, k \in 1..Len(list) :
                   j < k =>
                     /\ Sellable(list[k]) => Sellable(list[j])
                     /\ Sellable(list[j]) /\ Sellable(list[k]) =>
                           value(j) >= value(k)
                     /\ ~Sellable(list[j]) /\ ~Sellable(list[k]) =>
                           PlaceIn(Yard.containers, list[j])
                              < PlaceIn(Yard.containers, list[k])
        /\ \A nxt \in OneStep(sched) :
              \A id \in MetByTreat \cap Removed(nxt) :
                 Sellable(id) =>
                    \A k \in (sched.i + 2)..Len(list) :
                       Sellable(list[k]) /\ list[k] \in DOMAIN Yard.map =>
                          value(k) <= Obj(sched.strategy, id).value

\* the container of the intake about to be taken, the pile it is meant for
\* (the less occupied pile of its size, the first on a tie), and whether
\* the step to nxt puts it there
Incoming == Current(sched)

MeantPile ==
    LET a == stack_position(1, Incoming.size)
        b == stack_position(2, Incoming.size)
    IN  IF Len(Column(Yard, a)) <= Len(Column(Yard, b)) THEN a ELSE b

Placed(nxt) ==
    /\ Added(nxt) = {Incoming.identifier}
    /\ nxt.strategy.store = add(Yard, Incoming, MeantPile).st

C24_PostFlushWhileArriving ==
    PostFlush =>
        \A nxt \in OneStep(sched) :
            /\ Clock >= Incoming.arrival.end => Removed(nxt) = {}
            /\ \A k \in {sched.i + 1} \cap 1..Len(sched.removables) :
                  LET r == Obj(sched.strategy, sched.removables[k])
                  IN  /\ Clock < Incoming.arrival.end
                      /\ IsRemovable(sched.strategy, r)
                      /\ valid_container(sched.strategy, r)
                            \/ expired_container(sched.strategy, r)
                      => Removed(nxt) = {r.identifier}

\* the piles the strategy keeps: two for each size
DesignatedPiles ==
    { stack_position(n, size) : n \in 1..2, size \in 1..NumClasses }

\* the score of pile p explored with depth d, as pile_score gives it
ScoreOf(p, d) == pile_score(sched.strategy, p, d).val[1]

\* the yard holds the piles of every size
WideYard == Yard.width >= YardWidth

(* C26: In a yard that holds the piles of every size, for every depth      *)
(* best_pile returns one of the eight piles of the strategy with its       *)
(* score, no pile has a greater score, and when the returned pile is not   *)
(* empty no other non-empty pile of the same score has a smaller column;   *)
(* better_pile always replaces a best-so-far pile that is empty by the     *)
(* pile it examines.                                                       *)
C26_BestPileFirstOfTies ==
    WideYard =>
        \A d \in 0..MaxTime :
            LET best == best_pile(sched.strategy, d).val
            IN  /\ best[1] \in DesignatedPiles
                /\ best[2] = ScoreOf(best[1], d)
                /\ \A p \in DesignatedPiles :
                      /\ ScoreOf(p, d) <= best[2]
                      /\ /\ ~empty(Yard, best[1])
                         /\ ~empty(Yard, p)
                         /\ ScoreOf(p, d) = best[2]
                         => best[1] <= p
                      /\ \A q \in DesignatedPiles :
                            empty(Yard, q) =>
                               better_pile(sched.strategy, p,
                                           <<q, ScoreOf(q, d), d>>, d).val[1] = p

\* the step to nxt sells the container: it leaves the yard and the cash
\* grows by its value
SoldFor(nxt, id) ==
    /\ id \in Removed(nxt)
    /\ nxt.strategy.store.cash = Yard.cash + Obj(sched.strategy, id).value

\* the step to nxt puts the container on top of pile p
Relocated(nxt, id, p) ==
    /\ Moved(nxt) = {id}
    /\ nxt.strategy.store.map[id][2] = p

(* C27: A round of equilibrate_piles treats the top container of the      *)
(* taller pile as dig_pile and the flushes treat theirs: it is evicted    *)
(* with the cash unchanged if it is expired, sold for its value if it can *)
(* be delivered at the clock, and put on the shorter pile only if it is   *)
(* neither; and every round takes one unit off the remaining time, also   *)
(* when the taller pile is empty.                                          *)
C27_EquilibrateEvaluates ==
    /\ sched.pc = "equilibrate_piles"
    /\ WideYard
    /\ sched.rem_time > 0
    /\ Len(Column(Yard, sched.piles[1])) >= Len(Column(Yard, sched.piles[2]))
    => \A nxt \in OneStep(sched) :
          /\ nxt.pc = "equilibrate_piles"
          /\ nxt.rem_time = sched.rem_time - 1
          /\ empty(Yard, sched.piles[1]) => ~YardMutated(nxt)
          /\ \A id \in MetByEquilibrate :
                LET c == Obj(sched.strategy, id)
                IN  IF expired_container(sched.strategy, c)
                    THEN EvictedUnpaid(nxt, id)
                    ELSE IF valid_container(sched.strategy, c)
                    THEN SoldFor(nxt, id)
                    ELSE Relocated(nxt, id, sched.piles[2])

\* the Store predicate that guards the mutation by which the step to nxt
\* changed the yard holds in the state the step starts from
Permitted(nxt) ==
    /\ \A id \in Added(nxt) :
          can_add(Yard, Obj(nxt.strategy, id), nxt.strategy.store.map[id][2]).val
    /\ \A id \in Removed(nxt) :
          can_remove(Yard, Obj(sched.strategy, id)).val
    /\ \A id \in Moved(nxt) :
          can_move(Yard, Obj(sched.strategy, id), nxt.strategy.store.map[id][2]).val

(* C28: In a run of the expert strategy in a yard of width >= 20 every     *)
(* step that adds, removes or moves a container does so in a state where   *)
(* can_add, can_remove or can_move accepts it, and no step ends in an      *)
(* exception: no asserted precondition fails, whatever the input.          *)
C28_MutationsPermitted ==
    WideYard =>
        /\ sched.exc = NoExc
        /\ sched.pc # "raised"
        /\ \A nxt \in OneStep(sched) :
              /\ nxt.exc = NoExc
              /\ Permitted(nxt)

\* a run in the wide yard that added, moved and removed containers of two
\* sizes and whose last call of exec has returned
C28_Witness ==
    /\ WideYard
    /\ sched.pc = "idle"
    /\ Len(sched.strategy.seen) = NumInput
    /\ {"ADD", "MOVE", "REMOVE"} \subseteq LogKinds
    /\ \E j, k \in 1..NumInput :
          sched.strategy.seen[j].size # sched.strategy.seen[k].size

\* a number of steps no call of exec in these runs needs: the rounds of the
\* two flushes and their exits, the intake, and for each unit of remaining
\* time a round of the loop of exec with a round of dig_pile or of
\* equilibrate_piles and its exit
ExecBound == 2 * (NumInput + 1) + 1 + 3 * MaxTime + 1

\* the run after the steps that follow from run, up to the first one whose
\* pc is in stops, or after fuel steps
RECURSIVE Follow(_, _, _)
Follow(run, stops, fuel) ==
    IF run.pc \in stops \/ fuel = 0 \/ OneStep(run) = {} THEN run
    ELSE Follow(CHOOSE nxt \in OneStep(run) : TRUE, stops, fuel - 1)

\* the loop of exec goes on
Exploring ==
    /\ sched.pc = "loop"
    /\ sched.rem_time > 0
    /\ ~empty_store(sched.strategy)

(* C29: In a yard of width >= 20 every call of exec returns: from any     *)
(* state inside exec the run reaches the state between two calls within    *)
(* ExecBound steps; a round of the loop of exec, through dig_pile as       *)
(* through equilibrate_piles, comes back to the loop with a strictly       *)
(* smaller remaining time; and the loop ends as soon as the remaining      *)
(* time is not positive or the yard is empty.                              *)
C29_ExecTerminates ==
    WideYard =>
        /\ sched.pc \notin {"idle", "raised"} =>
              Follow(sched, {"idle", "raised"}, ExecBound).pc = "idle"
        /\ Exploring =>
              LET round == loop_round(sched)
                  back == Follow(round, {"loop", "raised"}, ExecBound)
              IN  /\ round.pc \in {"dig_pile", "equilibrate_piles"}
                  /\ back.pc = "loop"
                  /\ back.rem_time < sched.rem_time
        /\ sched.pc = "loop" /\ ~Exploring => loop_round(sched).pc = "idle"

\* the loop of exec goes on after a round that moved a container
C29_Witness ==
    /\ WideYard
    /\ Exploring
    /\ "MOVE" \in LogKinds

\* the columns a pile of containers of a size covers from column p on
Footprint(p, size) == p..(p + size - 1)

\* the sizes of the containers that lie on column p
SizesOn(p) == { Obj(sched.strategy, Column(Yard, p)[k]).size :
                  k \in 1..Len(Column(Yard, p)) }

(* C30: In every state of a run of the expert strategy in a yard of width  *)
(* >= 20 each container in the yard, of size k, has its left column at     *)
(* k*(k-1) or at k*k; the footprints of the eight piles (k columns from    *)
(* k*(k-1) and k columns from k*k, for k = 1..4) are pairwise disjoint and *)
(* lie inside the yard; so no column holds containers of two sizes, and    *)
(* the columns of one pile all have the same height.                       *)
C30_DesignatedPiles ==
    WideYard =>
        /\ \A id \in DOMAIN Yard.map :
              LET k == Obj(sched.strategy, id).size
              IN  Yard.map[id][2] \in {stack_position(1, k), stack_position(2, k)}
        /\ \A j, k \in 1..NumClasses : \A m, n \in 1..2 :
              /\ Footprint(stack_position(m, j), j) \subseteq 0..(Yard.width - 1)
              /\ <<m, j>> # <<n, k>> =>
                    Footprint(stack_position(m, j), j)
                       \cap Footprint(stack_position(n, k), k) = {}
        /\ \A p \in 0..(Yard.width - 1) : Cardinality(SizesOn(p)) <= 1
        /\ \A k \in 1..NumClasses : \A n \in 1..2 :
              \A p \in Footprint(stack_position(n, k), k) :
                 Len(Column(Yard, p)) = Len(Column(Yard, stack_position(n, k)))

\* two containers of different sizes lie in the wide yard after a container
\* was moved between the piles of its size
C30_Witness ==
    /\ WideYard
    /\ "MOVE" \in LogKinds
    /\ \E a, b \in DOMAIN Yard.map :
          Obj(sched.strategy, a).size # Obj(sched.strategy, b).size

(* C21: Of the containers that the pre-flush of exec(c) finds removable,   *)
(* every one whose value is greater than c.value and that is deliverable   *)
(* or expired has left the yard when the pre-flush ends, unless the clock  *)
(* has reached c.delivery.end by then; a candidate whose value is not      *)
(* greater than c.value stays and does not keep later candidates of        *)
(* greater value from being released.                                      *)
C21_PreFlushReleasesDearer ==
    WideYard /\ PreFlush /\ ListBuilt =>
        LET c == Incoming
            s == sched.strategy
            end == Follow(sched, {"intake", "raised"}, ExecBound).strategy
        IN  \A k \in 1..Len(sched.removables) :
               LET r == Obj(s, sched.removables[k])
               IN  IF r.value > c.value
                   THEN valid_container(s, r) \/ expired_container(s, r) =>
                           \/ r.identifier \notin DOMAIN end.store.map
                           \/ end.time >= c.delivery.end
                   ELSE r.identifier \in DOMAIN end.store.map

\* the i-th container from the top of column p (i = 0 for the top)
FromTop(p, i) == Obj(sched.strategy, Column(Yard, p)[Len(Column(Yard, p)) - i])

\* the number of containers a scan of depth d of column p looks at
Reach(p, d) == IF d < Len(Column(Yard, p)) THEN d ELSE Len(Column(Yard, p))

\* the money of a scan of the top n containers of column p from the i-th on:
\* the i-th from the top counts when it can be delivered at clock + i
RECURSIVE TopMoney(_, _, _)
TopMoney(p, n, i) ==
    IF i >= n THEN 0
    ELSE (IF InDelivery(FromTop(p, i), Clock + i) THEN FromTop(p, i).value ELSE 0)
         + TopMoney(p, n, i + 1)

\* the containers among the top n of column p that are deliverable or
\* expired at the clock
TopCount(p, n) ==
    Cardinality({ i \in 0..(n - 1) :
                    \/ valid_container(sched.strategy, FromTop(p, i))
                    \/ expired_container(sched.strategy, FromTop(p, i)) })

(* C25: For every pile p of the strategy and every depth d >= 0 the score  *)
(* of pile_score(p, d) is (3 * money + count) / 4 taken over the top       *)
(* min(d, height(p)) containers of the pile, scanned from the top down:    *)
(* the i-th from the top adds its value to money when                      *)
(* delivery.start <= clock + i < delivery.end, and count is the number of  *)
(* the scanned containers that are deliverable or expired at the clock;    *)
(* containers below the top d play no part.  (Scores are compared as       *)
(* their numerators 3 * money + count.)                                    *)
C25_ScoreScansTop ==
    WideYard =>
        \A p \in DesignatedPiles : \A d \in 0..MaxTime :
            ScoreOf(p, d)
               = ScoreMoney * TopMoney(p, Reach(p, d), 0)
                    + ScoreCount * TopCount(p, Reach(p, d))

\* the run is in the loop of exec or in the dig_pile or equilibrate_piles
\* that a round of it called
InExploration == sched.pc \in {"loop", "dig_pile", "equilibrate_piles"}

\* the run when the call of exec it is in has returned or raised
AtReturn == Follow(sched, {"idle", "raised"}, ExecBound)

(* C31: While exec(c) explores (the loop of exec with the dig_pile and    *)
(* equilibrate_piles it calls), every step that sells, loses or relocates *)
(* a container is taken at a clock strictly below c.arrival.end; a clock  *)
(* that is at most c.arrival.end during the exploration is still at most  *)
(* c.arrival.end when exec returns; and once the clock is at or past      *)
(* c.arrival.end the exploration leaves the yard as it is until exec      *)
(* returns.                                                               *)
C31_ExplorationWithinArrival ==
    InExploration =>
        /\ \A nxt \in OneStep(sched) :
              YardMutated(nxt) => Clock < Incoming.arrival.end
        /\ Clock <= Incoming.arrival.end =>
              AtReturn.strategy.time <= Incoming.arrival.end
        /\ Clock >= Incoming.arrival.end =>
              AtReturn.strategy.store = Yard

\* the exploration moved a container at the last clock value below
\* c.arrival.end and is back at the loop of exec with the time used up
C31_Witness ==
    /\ sched.pc = "loop"
    /\ Clock = Incoming.arrival.end
    /\ LogLines[Len(LogLines)][2] = "MOVE"
    /\ int(LogLines[Len(LogLines)][1]) = Incoming.arrival.end - 1

\* the places of the CASH records in a log
CashRecords(log) == { k \in 2..Len(log) : log[k][2] = "CASH" }

\* the log ends with a CASH record of the given amount
EndsWithCash(log, amount) ==
    /\ Len(log) \in CashRecords(log)
    /\ int(log[Len(log)][3]) = amount

(* C32: A step of the expert strategy that credits cash for a sale writes  *)
(* a CASH record with the cash of the yard after the sale; so the log of   *)
(* a run that sold a container holds a CASH record, and the cash of the    *)
(* yard is the amount of the last one.                                     *)
C32_CashRecorded ==
    /\ \A nxt \in OneStep(sched) :
          nxt.strategy.store.cash # Yard.cash =>
             EndsWithCash(nxt.strategy.log, nxt.strategy.store.cash)
    /\ (\E k \in 2..Len(LogLines) : IsSale(k)) =>
          /\ CashRecords(LogLines) # {}
          /\ \A k \in CashRecords(LogLines) :
                (\A j \in CashRecords(LogLines) : j <= k) =>
                   int(LogLines[k][3]) = Yard.cash

\* the runs of the simple strategy one step after run
SimpleStep(run) ==
    IF run.pc = "idle" THEN { simple_exec_enter(run, c) : c \in NextInputs(run) }
    ELSE IF run.pc = "while" THEN { simple_while(run) }
    ELSE IF run.pc = "transfer" THEN { transfer_enter(run) }
    ELSE IF run.pc = "transfer_loop" THEN { transfer_round(run) }
    ELSE {}

\* the ADD, REMOVE and MOVE records of the log
MutationRecords ==
    { k \in 2..Len(LogLines) : LogLines[k][2] \in {"ADD", "REMOVE", "MOVE"} }

(* C33: In a run of the simple strategy every step either adds, moves or  *)
(* removes a container, writes one record and advances the clock by 1, or *)
(* leaves the yard, the log and the clock as they were; so the clock is   *)
(* always the number of ADD, REMOVE and MOVE records of the log.          *)
C33_SimpleClockCountsRecords ==
    /\ Clock = Cardinality(MutationRecords)
    /\ \A nxt \in SimpleStep(sched) :
          \/ /\ YardMutated(nxt)
             /\ Len(nxt.strategy.log) = Len(LogLines) + 1
             /\ nxt.strategy.time = Clock + 1
          \/ /\ ~YardMutated(nxt)
             /\ nxt.strategy.log = LogLines
             /\ nxt.strategy.time = Clock

====
